---- MODULE Spec2Model ----
(***************************************************************************)
(* MMOE_MT (models/mmoe_mt.py) and MMOE_MT_ATT (models/mmoe_mt_att.py):    *)
(* the constructor (argument validation, sub-module creation) and one      *)
(* forward pass, statement group by statement group.                       *)
(*                                                                         *)
(* A tensor is a record [shape, deps, val]:                                *)
(*   shape  its torch shape, a sequence of naturals (ErrShape when the     *)
(*          operation that would produce it raises);                       *)
(*   deps   the sub-modules whose parameters its entries are computed      *)
(*          from;                                                          *)
(*   val    where the forward pass fixes the arithmetic (softmax, the      *)
(*          expert mixture, sigmoid, the doubling), the entries of         *)
(*          coordinate 1 of every row as exact rationals <<num, den>>;     *)
(*          <<>> elsewhere.                                                *)
(* Learned parameters and feature values are arbitrary: the pre-activation *)
(* values the arithmetic starts from are drawn from small tables indexed   *)
(* by the variable params.                                                 *)
(***************************************************************************)
EXTENDS Integers, Sequences, FiniteSets, TLC

\* ------------------------------------------------------------------ bounds
MaxTasks == 3
MaxExperts == 3
MaxBatch == 2
MaxParams == 2
MaxDomains == 2
EmbSize == 4
GateWidth == 8

\* ------------------------------------------------------- program constants
NumIntLayers == 3
LhucHidden == 128
LhucOut == 64
LhucFactor == 2

\* --------------------------------------------------------------- utilities
Range(s) == {s[k] : k \in 1..Len(s)}

Last(s) == s[Len(s)]

RECURSIVE SumSeq(_)
SumSeq(s) == IF s = <<>> THEN 0 ELSE s[1] + SumSeq(Tail(s))

RECURSIVE ProdSeq(_)
ProdSeq(s) == IF s = <<>> THEN 1 ELSE s[1] * ProdSeq(Tail(s))

\* exact rationals <<num, den>>, den > 0
RAdd(a, b) == <<a[1] * b[2] + b[1] * a[2], a[2] * b[2]>>
RMul(a, b) == <<a[1] * b[1], a[2] * b[2]>>
RLeq(a, b) == a[1] * b[2] <= b[1] * a[2]
RLess(a, b) == a[1] * b[2] < b[1] * a[2]
REq(a, b) == a[1] * b[2] = b[1] * a[2]

RECURSIVE RSum(_)
RSum(s) == IF s = <<>> THEN <<0, 1>> ELSE RAdd(s[1], RSum(Tail(s)))

\* --------------------------------------------------------------- arguments
None == "None"
TaskTypeStrings == {"binary", "regression", "multiclass"}
ValidTaskTypes == {"binary", "regression"}
Flags == {None, "sota", "usetrans", "sota_usetrans"}

\* 'usetrans' in flag, for a flag that is a string
HasUseTrans(flag) == flag \in {"usetrans", "sota_usetrans"}

\* feature columns: the domain column "d" is a sparse feature
SparseA == [name |-> "a", kind |-> "sparse"]
DenseX == [name |-> "x", kind |-> "dense"]
SparseD == [name |-> "d", kind |-> "sparse"]
ColumnLists == {<<>>, <<SparseD>>, <<SparseA, SparseD>>, <<SparseA, DenseX, SparseD>>}

SeqsUpTo(S, n) == UNION {[1..k -> S] : k \in 0..n}

Classes == {"MMOE_MT", "MMOE_MT_ATT"}

\* the arguments the argument sets vary around: the defaults of the signature,
\* and for the arguments a caller has to supply (the feature columns,
\* num_domains, domain_column, flag) the values of the documented command line
BaseArgs ==
    [cls |-> "MMOE_MT", n_task_names |-> 2, num_experts |-> 3,
     dnn_feature_columns |-> <<SparseA, SparseD>>,
     task_types |-> <<"binary", "binary">>,
     expert_dnn_hidden_units |-> <<256, 128>>,
     gate_dnn_hidden_units |-> <<64>>,
     tower_dnn_hidden_units |-> <<64>>,
     flag |-> "sota", domain_column |-> "d",
     domain_id_as_feature |-> FALSE, num_domains |-> 1]

\* arguments that exercise the validation of __init__
CtorArgs ==
    {[BaseArgs EXCEPT !.cls = c, !.n_task_names = nt, !.num_experts = ne,
                         !.dnn_feature_columns = cols, !.task_types = tt] :
        c \in Classes, nt \in 0..MaxTasks, ne \in -1..MaxExperts,
        cols \in {<<>>, <<SparseA, SparseD>>},
        tt \in SeqsUpTo(TaskTypeStrings, MaxTasks)}

\* task_types of valid constructions: all binary, all regression, alternating
TypePattern(k, n) ==
    [t \in 1..n |-> CASE k = 1 -> "binary"
                      [] k = 2 -> "regression"
                      [] OTHER -> IF t % 2 = 1 THEN "binary" ELSE "regression"]

\* arguments that pass validation, for the forward pass
FwdArgs ==
    {[BaseArgs EXCEPT !.cls = c, !.n_task_names = nt, !.num_experts = ne,
                         !.dnn_feature_columns = cols,
                         !.task_types = TypePattern(k, nt),
                         !.expert_dnn_hidden_units = eh,
                         !.gate_dnn_hidden_units = gh,
                         !.tower_dnn_hidden_units = th,
                         !.flag = fl] :
        c \in Classes, nt \in 2..MaxTasks, ne \in 2..MaxExperts,
        cols \in ColumnLists \ {<<>>}, k \in 1..3,
        eh \in {<<1>>, <<16, 2>>}, gh \in {<<>>, <<GateWidth>>},
        th \in {<<>>, <<LhucOut>>, <<32>>},
        fl \in {"sota", "usetrans"}}

\* the remaining arguments, one at a time around the defaults
OtherArgs ==
    {[BaseArgs EXCEPT !.cls = c, !.flag = fl, !.domain_id_as_feature = df,
                      !.num_domains = nd] :
        c \in Classes, fl \in Flags, df \in BOOLEAN, nd \in 1..MaxDomains}

ArgsSet == CtorArgs \cup FwdArgs \cup OtherArgs

\* input batches: row b carries domain id base + b - 1 in its domain column
Batches ==
    {[b \in 1..n |-> base + b - 1] : n \in 1..MaxBatch, base \in 0..1}

VARIABLES
    args,             \* the constructor's arguments
    X,                \* the input batch of forward: the domain id of each row
    params,           \* selects the learned parameters and feature values
    pc,               \* position in __init__ / forward
    err,              \* the exception raised, NoErr when none
    modules,          \* sub-modules registered on self: <<name, index>> -> descriptor
    locals,           \* local variables of __init__ (field_num, dnn_feature_columns)
    dnn_input,        \* forward: the experts' and gates' input
    expert_outs_list, \* forward: expert_outs while it is a list
    expert_outs,      \* forward: expert_outs after torch.stack
    gate_dnn_out,     \* forward: the gate logits of the current task
    gate_softmax,     \* forward: gate_dnn_out.softmax(1) of the current task
    mmoe_outs,        \* forward: list of the tasks' expert mixtures
    domain_emb,       \* forward: embedding of the rows' domain ids
    lhuc_output,      \* forward (MMOE_MT): the scaling vector
    att,              \* forward (MMOE_MT_ATT): the current task's scaling vector
    tower_dnn_out,    \* forward: the current task's rescaled tower output
    task_outs,        \* forward: list of the tasks' predictions
    result,           \* forward: the returned tensor
    trace             \* forward: sub-module calls in order, [m, arg]

ctorvars == <<args, modules, locals>>

loopvars == <<expert_outs_list, expert_outs, gate_dnn_out, gate_softmax,
              mmoe_outs, domain_emb, lhuc_output, att, tower_dnn_out,
              task_outs, result>>

vars == <<args, X, params, pc, err, modules, locals, dnn_input,
          expert_outs_list, expert_outs, gate_dnn_out, gate_softmax, mmoe_outs,
          domain_emb, lhuc_output, att, tower_dnn_out, task_outs, result, trace>>

NoErr == [type |-> "", msg |-> "", what |-> ""]
ErrShape == <<-1>>
Tensor(s, d, v) == [shape |-> s, deps |-> d, val |-> v]
NoTensor == Tensor(<<>>, {}, <<>>)
NoInput == [shape |-> <<>>, deps |-> {}, val |-> <<>>, parts |-> <<>>]
NoResult == [shape |-> <<>>, deps |-> {}, cols |-> <<>>]
NoLocals == [field_num |-> -1, dnn_feature_columns |-> <<>>]

IsErr(t) == t.shape = ErrShape

\* ------------------------------------------------------------- constructor
num_tasks(a) == a.n_task_names

SparseCols(cols) == SelectSeq(cols, LAMBDA c : c.kind = "sparse")
DenseCols(cols) == SelectSeq(cols, LAMBDA c : c.kind = "dense")

\* BaseModel.compute_input_dim: every sparse field embeds to EmbSize entries,
\* every dense field is one value
compute_input_dim(cols) == Len(SparseCols(cols)) * EmbSize + Len(DenseCols(cols))

\* BaseModel.__init__: one embedding table per sparse feature column
EmbeddingIds(cols) == {<<"embedding_dict", k>> : k \in 0..(Len(SparseCols(cols)) - 1)}

Desc(kind, dims, task) == [kind |-> kind, dims |-> dims, task |-> task]

EmbeddingDict(a) ==
    [id \in EmbeddingIds(a.dnn_feature_columns) |-> Desc("Embedding", <<EmbSize>>, "")]

\* faulty variant: only the first task type is looked at
BadTaskTypes_FirstOnly(tt) == {k \in 1..Len(tt) : k = 1 /\ tt[k] \notin ValidTaskTypes}

\* positions of task_types the loop of __init__ rejects
BadTaskTypes(tt) == {k \in 1..Len(tt) : tt[k] \notin ValidTaskTypes}

FirstBad(tt) == tt[CHOOSE k \in BadTaskTypes(tt) : \A j \in BadTaskTypes(tt) : k <= j]

ValueError(msg, what) == [type |-> "ValueError", msg |-> msg, what |-> what]

\* faulty variant: a task or expert count is rejected only when negative
Validate_NonPositive(a) ==
    IF num_tasks(a) < 0
    THEN ValueError("num_tasks must be greater than 1", "")
    ELSE IF a.num_experts < 0
    THEN ValueError("num_experts must be greater than 1", "")
    ELSE IF Len(a.dnn_feature_columns) = 0
    THEN ValueError("dnn_feature_columns is null!", "")
    ELSE IF Len(a.task_types) # num_tasks(a)
    THEN ValueError("num_tasks must be equal to the length of task_types", "")
    ELSE IF BadTaskTypes(a.task_types) # {}
    THEN ValueError("task must be binary or regression, {} is illegal", FirstBad(a.task_types))
    ELSE NoErr

\* faulty variant: the length of task_types is checked before the feature columns
Validate_Reordered(a) ==
    IF num_tasks(a) <= 1
    THEN ValueError("num_tasks must be greater than 1", "")
    ELSE IF a.num_experts <= 1
    THEN ValueError("num_experts must be greater than 1", "")
    ELSE IF Len(a.task_types) # num_tasks(a)
    THEN ValueError("num_tasks must be equal to the length of task_types", "")
    ELSE IF Len(a.dnn_feature_columns) = 0
    THEN ValueError("dnn_feature_columns is null!", "")
    ELSE IF BadTaskTypes(a.task_types) # {}
    THEN ValueError("task must be binary or regression, {} is illegal", FirstBad(a.task_types))
    ELSE NoErr

\* the checks of __init__ in their order: the ValueError of the first that
\* fails, NoErr when all pass
Validate(a) ==
    IF num_tasks(a) <= 1
    THEN ValueError("num_tasks must be greater than 1", "")
    ELSE IF a.num_experts <= 1
    THEN ValueError("num_experts must be greater than 1", "")
    ELSE IF Len(a.dnn_feature_columns) = 0
    THEN ValueError("dnn_feature_columns is null!", "")
    ELSE IF Len(a.task_types) # num_tasks(a)
    THEN ValueError("num_tasks must be equal to the length of task_types", "")
    ELSE IF BadTaskTypes(a.task_types) # {}
    THEN ValueError("task must be binary or regression, {} is illegal", FirstBad(a.task_types))
    ELSE NoErr

Tasks(a) == 0..(num_tasks(a) - 1)
Experts(a) == 0..(a.num_experts - 1)

\* faulty variant: the flag is compared with 'usetrans' instead of searched for it
IntLayerIds_ExactFlag(a) ==
    IF a.flag = "usetrans" THEN {<<"int_layers", k>> : k \in 0..(NumIntLayers - 1)} ELSE {}

IntLayerIds(a) ==
    IF HasUseTrans(a.flag) THEN {<<"int_layers", k>> : k \in 0..(NumIntLayers - 1)} ELSE {}

GateDnnIds(a) ==
    IF Len(a.gate_dnn_hidden_units) > 0 THEN {<<"gate_dnn", i>> : i \in Tasks(a)} ELSE {}

TowerDnnIds(a) ==
    IF Len(a.tower_dnn_hidden_units) > 0 THEN {<<"tower_dnn", i>> : i \in Tasks(a)} ELSE {}

NetworkIds(a) ==
    IntLayerIds(a) \cup {<<"expert_dnn", i>> : i \in Experts(a)}
    \cup GateDnnIds(a) \cup {<<"gate_dnn_final_layer", i>> : i \in Tasks(a)}
    \cup TowerDnnIds(a) \cup {<<"tower_dnn_final_layer", i>> : i \in Tasks(a)}
    \cup {<<"out", i>> : i \in Tasks(a)}

GateFinalDims(a) ==
    <<IF Len(a.gate_dnn_hidden_units) > 0 THEN Last(a.gate_dnn_hidden_units)
      ELSE compute_input_dim(a.dnn_feature_columns), a.num_experts>>

TowerFinalDims(a) ==
    <<IF Len(a.tower_dnn_hidden_units) > 0 THEN Last(a.tower_dnn_hidden_units)
      ELSE Last(a.expert_dnn_hidden_units), 1>>

NetworkDesc(a, id) ==
    LET input_dim == compute_input_dim(a.dnn_feature_columns) IN
    CASE id[1] = "int_layers" -> Desc("SelfAttention_Layer", <<EmbSize>>, "")
      [] id[1] = "expert_dnn" -> Desc("DNN", <<input_dim>> \o a.expert_dnn_hidden_units, "")
      [] id[1] = "gate_dnn" -> Desc("DNN", <<input_dim>> \o a.gate_dnn_hidden_units, "")
      [] id[1] = "gate_dnn_final_layer" -> Desc("Linear", GateFinalDims(a), "")
      [] id[1] = "tower_dnn" ->
            Desc("DNN", <<Last(a.expert_dnn_hidden_units)>> \o a.tower_dnn_hidden_units, "")
      [] id[1] = "tower_dnn_final_layer" -> Desc("Linear", TowerFinalDims(a), "")
      [] OTHER -> Desc("PredictionLayer", <<>>, a.task_types[id[2] + 1])

LhucIds(a) ==
    IF a.cls = "MMOE_MT" THEN {<<"lhuc", 0>>} ELSE {<<"lhuc", i>> : i \in Tasks(a)}

TargetAttentionIds(a) ==
    IF a.cls = "MMOE_MT" THEN {} ELSE {<<"target_attention", i>> : i \in Tasks(a)}

DomainIds(a) == {<<"domain_embeddings", 0>>} \cup LhucIds(a) \cup TargetAttentionIds(a)

\* faulty variant: the table has one row per domain and none for id num_domains
DomainDesc_NoExtraRow(a, id) ==
    CASE id[1] = "domain_embeddings" -> Desc("Embedding", <<a.num_domains, EmbSize>>, "")
      [] id[1] = "lhuc" -> Desc("LHUC", <<EmbSize, LhucHidden, LhucOut>>, "")
      [] OTHER -> Desc("Attention_Layer", <<EmbSize>>, "")

DomainDesc(a, id) ==
    CASE id[1] = "domain_embeddings" -> Desc("Embedding", <<a.num_domains + 1, EmbSize>>, "")
      [] id[1] = "lhuc" -> Desc("LHUC", <<EmbSize, LhucHidden, LhucOut>>, "")
      [] OTHER -> Desc("Attention_Layer", <<EmbSize>>, "")

\* self gains the sub-modules of new
Register(mods, new) ==
    [id \in DOMAIN mods \cup DOMAIN new |-> IF id \in DOMAIN new THEN new[id] ELSE mods[id]]

\* filter_feature_columns: feat.name not in filtered_col_names, a substring
\* test on the column name; the names here are single letters
filter_feature_columns(feature_columns, filtered_col_names) ==
    SelectSeq(feature_columns, LAMBDA feat : feat.name # filtered_col_names)

DomainLocals(a, mods) ==
    LET n == Cardinality({id \in DOMAIN mods : id[1] = "embedding_dict"}) IN
    IF a.domain_id_as_feature
    THEN [field_num |-> n, dnn_feature_columns |-> a.dnn_feature_columns]
    ELSE [field_num |-> n - 1,
          dnn_feature_columns |->
              filter_feature_columns(a.dnn_feature_columns, a.domain_column)]

Init ==
    /\ args \in ArgsSet
    /\ X = <<>>
    /\ params = 0
    /\ pc = "new"
    /\ err = NoErr
    /\ modules = EmbeddingDict(args)
    /\ locals = NoLocals
    /\ dnn_input = NoInput
    /\ expert_outs_list = <<>>
    /\ expert_outs = NoTensor
    /\ gate_dnn_out = NoTensor
    /\ gate_softmax = NoTensor
    /\ mmoe_outs = <<>>
    /\ domain_emb = NoTensor
    /\ lhuc_output = NoTensor
    /\ att = NoTensor
    /\ tower_dnn_out = NoTensor
    /\ task_outs = <<>>
    /\ result = NoResult
    /\ trace = <<>>

\* __init__, the argument checks
InitValidate ==
    /\ pc = "new"
    /\ err' = Validate(args)
    /\ pc' = IF Validate(args) = NoErr THEN "validated" ELSE "raised"
    /\ UNCHANGED <<ctorvars, X, params, dnn_input, loopvars, trace>>

\* faulty variant: a flag of None is read as a flag without 'usetrans'
InitNetworks_NoneAsNoFlag ==
    /\ pc = "validated"
    /\ pc' = "networks"
    /\ err' = err
    /\ modules' = Register(modules, [id \in NetworkIds(args) |-> NetworkDesc(args, id)])
    /\ UNCHANGED <<args, locals, X, params, dnn_input, loopvars, trace>>

\* __init__, from self.num_experts = ... to the first self.to(device)
InitNetworks ==
    /\ pc = "validated"
    /\ IF args.flag = None
       THEN /\ pc' = "raised"
            /\ err' = [type |-> "TypeError",
                       msg |-> "argument of type 'NoneType' is not iterable", what |-> ""]
            /\ modules' = modules
       ELSE /\ pc' = "networks"
            /\ err' = err
            /\ modules' = Register(modules, [id \in NetworkIds(args) |-> NetworkDesc(args, id)])
    /\ UNCHANGED <<args, locals, X, params, dnn_input, loopvars, trace>>

\* __init__, the #domain part
InitDomain ==
    /\ pc = "networks"
    /\ locals' = DomainLocals(args, modules)
    /\ modules' = Register(modules, [id \in DomainIds(args) |-> DomainDesc(args, id)])
    /\ pc' = "constructed"
    /\ UNCHANGED <<args, err, X, params, dnn_input, loopvars, trace>>

\* ------------------------------------------------------------------ shapes
Max(a, b) == IF a >= b THEN a ELSE b

\* torch.cat along the (1-based) position ax: the shapes agree everywhere else
CatShape(ss, ax) ==
    IF Len(ss) = 0 \/ \E k \in 1..Len(ss) : ss[k] = ErrShape \/ Len(ss[k]) < ax
    THEN ErrShape
    ELSE IF \A k \in 1..Len(ss) :
               /\ Len(ss[k]) = Len(ss[1])
               /\ \A d \in 1..Len(ss[1]) : d # ax => ss[k][d] = ss[1][d]
    THEN [ss[1] EXCEPT ![ax] = SumSeq([k \in 1..Len(ss) |-> ss[k][ax]])]
    ELSE ErrShape

\* concat_fun: a list of one tensor is returned as it is
concat_fun(ss, ax) == IF Len(ss) = 1 THEN ss[1] ELSE CatShape(ss, ax)

\* torch.flatten(t, start_dim=1)
FlattenShape(s) == <<s[1], ProdSeq(SubSeq(s, 2, Len(s)))>>

\* nn.Linear(dims[1], dims[2]): the last dimension must be dims[1]
LinearShape(dims, s) ==
    IF s # ErrShape /\ Len(s) >= 1 /\ Last(s) = dims[1]
    THEN [s EXCEPT ![Len(s)] = dims[2]]
    ELSE ErrShape

\* deepctr_torch DNN(dims[1], dims[2..]): a chain of linear layers
DNNShape(dims, s) == LinearShape(<<dims[1], Last(dims)>>, s)

\* torch.stack(list, 1)
StackShape(ss) ==
    IF Len(ss) = 0 \/ \E k \in 1..Len(ss) : ss[k] = ErrShape \/ ss[k] # ss[1] \/ Len(ss[k]) < 1
    THEN ErrShape
    ELSE <<ss[1][1], Len(ss)>> \o Tail(ss[1])

\* t.unsqueeze(1)
UnsqueezeShape(s) == IF s = ErrShape \/ Len(s) < 1 THEN ErrShape ELSE <<s[1], 1>> \o Tail(s)

\* torch.matmul of two 3-d tensors: batched (n, m) x (m, p)
MatmulShape(s, t) ==
    IF s # ErrShape /\ t # ErrShape /\ Len(s) = 3 /\ Len(t) = 3
       /\ s[1] = t[1] /\ s[3] = t[2]
    THEN <<s[1], s[2], t[3]>>
    ELSE ErrShape

SqueezeAllShape(s) == SelectSeq(s, LAMBDA d : d # 1)

\* t.squeeze(): every dimension of size 1 is removed
SqueezeShape(s) == IF s = ErrShape THEN ErrShape ELSE SqueezeAllShape(s)

PadLeft(s, n) == [k \in 1..n |-> IF k <= n - Len(s) THEN 1 ELSE s[k - (n - Len(s))]]

\* broadcasting of an element-wise operation
BroadcastShape(s, t) ==
    IF s = ErrShape \/ t = ErrShape THEN ErrShape
    ELSE LET n == Max(Len(s), Len(t))
             a == PadLeft(s, n)
             b == PadLeft(t, n)
         IN IF \A k \in 1..n : a[k] = b[k] \/ a[k] = 1 \/ b[k] = 1
            THEN [k \in 1..n |-> IF a[k] = 1 THEN b[k] ELSE a[k]]
            ELSE ErrShape

\* ------------------------------------------------------------------ values
\* pre-activation values fixed by the learned parameters and the features
Logits == -1..1
ExpertVal(p, e, b) == ((p + e + 2 * b) % 3) - 1
GateLogit(p, i, e, b) == ((p * (i + 1) + e + b) % 3) - 1
LhucPre(p, i, id) == ((p + i + id) % 3) - 1
TowerVal(p, i, b) == 1 + ((p + i + b) % 2)

\* exp on Logits up to the common factor 2: positive and increasing
ExpQ(z) == IF z <= -1 THEN 1 ELSE IF z = 0 THEN 2 ELSE 4

\* nn.Sigmoid: e^z / (1 + e^z)
Sigmoid(z) == <<ExpQ(z), ExpQ(0) + ExpQ(z)>>

\* faulty variant: softmax over dimension 0, the rows of the batch
Softmax0(z) ==
    [b \in 1..Len(z) |->
        [e \in 1..Len(z[b]) |->
            <<ExpQ(z[b][e]), SumSeq([k \in 1..Len(z) |-> ExpQ(z[k][e])])>>]]

\* softmax over dimension 1 of a (rows, n) matrix of logits
Softmax1(z) ==
    [b \in 1..Len(z) |->
        [e \in 1..Len(z[b]) |->
            <<ExpQ(z[b][e]), SumSeq([k \in 1..Len(z[b]) |-> ExpQ(z[b][k])])>>]]

\* (1, n) x (n, 1) of row b: the entries of w weight the entries of x
Dot(w, x) == RSum([e \in 1..Len(w) |-> RMul(w[e], x[e])])

\* ----------------------------------------------------------------- forward
Call(m, a) == [m |-> m, arg |-> a]

\* input_from_feature_columns: every sparse field as (B, 1, EmbSize), every
\* dense field as (B, 1)
SparseEmbeddingList(cols, B) == [k \in 1..Len(SparseCols(cols)) |-> <<B, 1, EmbSize>>]
DenseValueList(cols, B) == [k \in 1..Len(DenseCols(cols)) |-> <<B, 1>>]

\* SelfAttention_Layer.forward keeps the shape of its input
SelfAttentionShape(s) == s

\* the 'usetrans' branch of forward: shape of att_output
AttOutputShape(cols, B) ==
    FlattenShape(SelfAttentionShape(SelfAttentionShape(SelfAttentionShape(
        concat_fun(SparseEmbeddingList(cols, B), 2)))))

IntLayerCalls ==
    [k \in 1..NumIntLayers |->
        Call(<<"int_layers", k - 1>>,
             IF k = 1 THEN <<"sparse_embedding_list", 0>> ELSE <<"int_layers", k - 2>>)]

\* combined_dnn_input: the flattened sparse embeddings, then the dense values
CombinedDnnInputShape(cols, B) == <<B, Len(SparseCols(cols)) * EmbSize + Len(DenseCols(cols))>>

\* faulty variant: without domain_id_as_feature, forward reads the filtered
\* column list
DnnInput_Filtered(a, B) ==
    LET cols == IF a.domain_id_as_feature THEN a.dnn_feature_columns
                ELSE filter_feature_columns(a.dnn_feature_columns, a.domain_column)
        dense == DenseValueList(cols, B)
        emb == EmbeddingIds(cols)
    IN IF HasUseTrans(a.flag)
       THEN LET att_output == AttOutputShape(cols, B) IN
            IF Len(dense) > 0
            THEN [shape |-> concat_fun(<<att_output, concat_fun(dense, 2)>>, 2),
                  deps |-> emb \cup IntLayerIds(a), val |-> <<>>,
                  parts |-> <<[src |-> "att_output", width |-> att_output[2]],
                              [src |-> "dense_input", width |-> Len(dense)]>>]
            ELSE [shape |-> att_output,
                  deps |-> emb \cup IntLayerIds(a), val |-> <<>>,
                  parts |-> <<[src |-> "att_output", width |-> att_output[2]]>>]
       ELSE [shape |-> CombinedDnnInputShape(cols, B), deps |-> emb, val |-> <<>>,
             parts |-> <<[src |-> "combined_dnn_input",
                          width |-> CombinedDnnInputShape(cols, B)[2]]>>]

\* forward up to dnn_input
DnnInput(a, B) ==
    LET cols == a.dnn_feature_columns
        dense == DenseValueList(cols, B)
        emb == EmbeddingIds(cols)
    IN IF HasUseTrans(a.flag)
       THEN LET att_output == AttOutputShape(cols, B) IN
            IF Len(dense) > 0
            THEN [shape |-> concat_fun(<<att_output, concat_fun(dense, 2)>>, 2),
                  deps |-> emb \cup IntLayerIds(a), val |-> <<>>,
                  parts |-> <<[src |-> "att_output", width |-> att_output[2]],
                              [src |-> "dense_input", width |-> Len(dense)]>>]
            ELSE [shape |-> att_output,
                  deps |-> emb \cup IntLayerIds(a), val |-> <<>>,
                  parts |-> <<[src |-> "att_output", width |-> att_output[2]]>>]
       ELSE [shape |-> CombinedDnnInputShape(cols, B), deps |-> emb, val |-> <<>>,
             parts |-> <<[src |-> "combined_dnn_input",
                          width |-> CombinedDnnInputShape(cols, B)[2]]>>]

\* the sub-modules forward reads up to dnn_input
InputUses(a) == IF HasUseTrans(a.flag) THEN {c.m : c \in Range(IntLayerCalls)} ELSE {}

Raise(type, msg) ==
    /\ pc' = "raised"
    /\ err' = [type |-> type, msg |-> msg, what |-> ""]

\* forward, from input_from_feature_columns to dnn_input
ForwardInput ==
    /\ pc = "constructed"
    /\ \E batch \in Batches, p \in 1..MaxParams :
          /\ X' = batch
          /\ params' = p
          /\ IF ~(InputUses(args) \subseteq DOMAIN modules)
             THEN /\ Raise("AttributeError", "int_layers")
                  /\ UNCHANGED <<dnn_input, trace>>
             ELSE /\ dnn_input' = DnnInput(args, Len(batch))
                  /\ trace' = IF HasUseTrans(args.flag) THEN IntLayerCalls ELSE <<>>
                  /\ pc' = "experts"
                  /\ err' = err
    /\ UNCHANGED <<ctorvars, loopvars>>

\* self.expert_dnn[i](dnn_input)
ExpertOut(mods, i, x, p) ==
    Tensor(DNNShape(mods[<<"expert_dnn", i>>].dims, x.shape),
           x.deps \cup {<<"expert_dnn", i>>},
           [b \in 1..x.shape[1] |-> <<ExpertVal(p, i, b), 1>>])

\* forward, one iteration of the expert loop
ForwardExpert ==
    /\ pc = "experts"
    /\ Len(expert_outs_list) < args.num_experts
    /\ LET i == Len(expert_outs_list) IN
       IF <<"expert_dnn", i>> \notin DOMAIN modules
       THEN /\ Raise("AttributeError", "expert_dnn")
            /\ UNCHANGED <<expert_outs_list, trace>>
       ELSE LET out == ExpertOut(modules, i, dnn_input, params) IN
            IF IsErr(out)
            THEN /\ Raise("RuntimeError", "expert_dnn shape")
                 /\ UNCHANGED <<expert_outs_list, trace>>
            ELSE /\ expert_outs_list' = Append(expert_outs_list, out)
                 /\ trace' = Append(trace, Call(<<"expert_dnn", i>>, <<"dnn_input", 0>>))
                 /\ UNCHANGED <<pc, err>>
    /\ UNCHANGED <<ctorvars, X, params, dnn_input, expert_outs, gate_dnn_out,
                   gate_softmax, mmoe_outs, domain_emb, lhuc_output, att,
                   tower_dnn_out, task_outs, result>>

\* faulty variant: the experts are stacked in reverse order
Stack_Reversed(outs) ==
    Tensor(StackShape([k \in 1..Len(outs) |-> outs[k].shape]),
           UNION {outs[k].deps : k \in 1..Len(outs)},
           [b \in 1..Len(outs[1].val) |->
               [e \in 1..Len(outs) |-> outs[Len(outs) + 1 - e].val[b]]])

\* torch.stack(expert_outs, 1): entry [b][e] is expert e - 1 on row b
Stack(outs) ==
    Tensor(StackShape([k \in 1..Len(outs) |-> outs[k].shape]),
           UNION {outs[k].deps : k \in 1..Len(outs)},
           [b \in 1..Len(outs[1].val) |-> [e \in 1..Len(outs) |-> outs[e].val[b]]])

\* forward, expert_outs = torch.stack(expert_outs, 1)
ForwardStack ==
    /\ pc = "experts"
    /\ Len(expert_outs_list) = args.num_experts
    /\ expert_outs' = Stack(expert_outs_list)
    /\ pc' = "gates"
    /\ UNCHANGED <<ctorvars, X, params, err, dnn_input, expert_outs_list, gate_dnn_out,
                   gate_softmax, mmoe_outs, domain_emb, lhuc_output, att,
                   tower_dnn_out, task_outs, result, trace>>

\* gate_dnn_out before the softmax: self.gate_dnn[i] when gate_dnn_hidden_units
\* is not empty, then self.gate_dnn_final_layer[i]
GateUses(a, i) ==
    (IF Len(a.gate_dnn_hidden_units) > 0 THEN {<<"gate_dnn", i>>} ELSE {})
    \cup {<<"gate_dnn_final_layer", i>>}

GateCalls(a, i) ==
    IF Len(a.gate_dnn_hidden_units) > 0
    THEN <<Call(<<"gate_dnn", i>>, <<"dnn_input", 0>>),
           Call(<<"gate_dnn_final_layer", i>>, <<"gate_dnn", i>>)>>
    ELSE <<Call(<<"gate_dnn_final_layer", i>>, <<"dnn_input", 0>>)>>

GateDnnOut(a, mods, i, x, p) ==
    LET final == mods[<<"gate_dnn_final_layer", i>>].dims
        h == IF Len(a.gate_dnn_hidden_units) > 0
             THEN DNNShape(mods[<<"gate_dnn", i>>].dims, x.shape)
             ELSE x.shape
    IN Tensor(LinearShape(final, h), x.deps \cup GateUses(a, i),
              [b \in 1..x.shape[1] |-> [e \in 1..final[2] |-> GateLogit(p, i, e - 1, b)]])

\* gate_dnn_out.softmax(1)
GateSoftmax(t) ==
    Tensor(IF Len(t.shape) >= 2 THEN t.shape ELSE ErrShape, t.deps, Softmax1(t.val))

\* torch.matmul(gate_dnn_out.softmax(1).unsqueeze(1), expert_outs)
GateMulExpert(w, eo) ==
    LET s == MatmulShape(UnsqueezeShape(w.shape), eo.shape) IN
    Tensor(s, w.deps \cup eo.deps,
           IF s = ErrShape THEN <<>>
           ELSE [b \in 1..Len(w.val) |-> Dot(w.val[b], eo.val[b])])

Squeeze(t) == Tensor(SqueezeShape(t.shape), t.deps, t.val)

\* forward, one iteration of the gate loop
ForwardGate ==
    /\ pc = "gates"
    /\ Len(mmoe_outs) < num_tasks(args)
    /\ LET i == Len(mmoe_outs) IN
       IF ~(GateUses(args, i) \subseteq DOMAIN modules)
       THEN /\ Raise("AttributeError", "gate_dnn")
            /\ UNCHANGED <<gate_dnn_out, gate_softmax, mmoe_outs, trace>>
       ELSE LET g == GateDnnOut(args, modules, i, dnn_input, params)
                w == GateSoftmax(g)
                gate_mul_expert == GateMulExpert(w, expert_outs)
            IN IF IsErr(g) \/ IsErr(w) \/ IsErr(gate_mul_expert)
               THEN /\ Raise("RuntimeError", "gate shape")
                    /\ UNCHANGED <<gate_dnn_out, gate_softmax, mmoe_outs, trace>>
               ELSE /\ gate_dnn_out' = g
                    /\ gate_softmax' = w
                    /\ mmoe_outs' = Append(mmoe_outs, Squeeze(gate_mul_expert))
                    /\ trace' = trace \o GateCalls(args, i)
                    /\ UNCHANGED <<pc, err>>
    /\ UNCHANGED <<ctorvars, X, params, dnn_input, expert_outs_list, expert_outs,
                   domain_emb, lhuc_output, att, tower_dnn_out, task_outs, result>>

\* self.domain_embeddings(domain_ids): row b is the table row of id ids[b]
DomainEmb(mods, ids) ==
    LET dims == mods[<<"domain_embeddings", 0>>].dims IN
    Tensor(IF \A b \in 1..Len(ids) : ids[b] \in 0..(dims[1] - 1)
           THEN <<Len(ids), dims[2]>> ELSE ErrShape,
           {<<"domain_embeddings", 0>>}, ids)

\* the four layers of an lhuc stack: Linear, ReLU, Linear, Sigmoid
LhucShape(dims, s) == LinearShape(<<dims[2], dims[3]>>, LinearShape(<<dims[1], dims[2]>>, s))

\* MMOE_MT: lhuc_output = lhuc(domain_emb) * 2
LhucOutput(mods, de, p) ==
    Tensor(LhucShape(mods[<<"lhuc", 0>>].dims, de.shape),
           de.deps \cup {<<"lhuc", 0>>},
           [b \in 1..Len(de.val) |-> RMul(<<LhucFactor, 1>>, Sigmoid(LhucPre(p, 0, de.val[b])))])

DomainUses(a) ==
    {<<"domain_embeddings", 0>>} \cup (IF a.cls = "MMOE_MT" THEN {<<"lhuc", 0>>} ELSE {})

DomainCalls(a) ==
    <<Call(<<"domain_embeddings", 0>>, <<"domain_ids", 0>>)>>
    \o (IF a.cls = "MMOE_MT" THEN <<Call(<<"lhuc", 0>>, <<"domain_embeddings", 0>>)>> ELSE <<>>)

\* forward, the # domain part
ForwardDomain ==
    /\ pc = "gates"
    /\ Len(mmoe_outs) = num_tasks(args)
    /\ IF ~(DomainUses(args) \subseteq DOMAIN modules)
       THEN /\ Raise("AttributeError", "domain_embeddings")
            /\ UNCHANGED <<domain_emb, lhuc_output, trace>>
       ELSE LET de == DomainEmb(modules, X) IN
            IF IsErr(de)
            THEN /\ Raise("IndexError", "index out of range in self")
                 /\ UNCHANGED <<domain_emb, lhuc_output, trace>>
            ELSE /\ domain_emb' = de
                 /\ lhuc_output' = IF args.cls = "MMOE_MT"
                                   THEN LhucOutput(modules, de, params) ELSE lhuc_output
                 /\ trace' = trace \o DomainCalls(args)
                 /\ pc' = "towers"
                 /\ err' = err
    /\ UNCHANGED <<ctorvars, X, params, dnn_input, expert_outs_list, expert_outs,
                   gate_dnn_out, gate_softmax, mmoe_outs, att, tower_dnn_out,
                   task_outs, result>>

\* self.tower_dnn[i](mmoe_outs[i])
TowerDnn(mods, i, mm, p) ==
    Tensor(DNNShape(mods[<<"tower_dnn", i>>].dims, mm.shape),
           mm.deps \cup {<<"tower_dnn", i>>},
           [b \in 1..Len(mm.val) |-> <<TowerVal(p, i, b), 1>>])

\* Attention_Layer.forward(query, key): one row of EmbSize entries per row of key
TargetAttention(mods, i, q, k) ==
    Tensor(IF IsErr(q) THEN ErrShape ELSE k.shape,
           q.deps \cup k.deps \cup {<<"target_attention", i>>}, k.val)

\* faulty variant: the attention-based scaling vector is doubled as in MMOE_MT
Att_Doubled(mods, i, t, de, p) ==
    LET a0 == TargetAttention(mods, i, t, de) IN
    Tensor(LhucShape(mods[<<"lhuc", i>>].dims, a0.shape),
           a0.deps \cup {<<"lhuc", i>>},
           [b \in 1..Len(a0.val) |->
               RMul(<<LhucFactor, 1>>, Sigmoid(LhucPre(p, i, a0.val[b] + b)))])

\* MMOE_MT_ATT: att = target_attention[i](tower_dnn_out, domain_emb), then the
\* layers of lhuc[i]
Att(mods, i, t, de, p) ==
    LET a0 == TargetAttention(mods, i, t, de) IN
    Tensor(LhucShape(mods[<<"lhuc", i>>].dims, a0.shape),
           a0.deps \cup {<<"lhuc", i>>},
           [b \in 1..Len(a0.val) |-> Sigmoid(LhucPre(p, i, a0.val[b] + b))])

\* faulty variant: the tower output is passed on as it is
Mul_NoScale(t, scale) == t

\* the element-wise product tower_dnn_out * scale
Mul(t, scale) ==
    LET s == BroadcastShape(t.shape, scale.shape) IN
    Tensor(s, t.deps \cup scale.deps,
           IF s = ErrShape THEN <<>>
           ELSE [b \in 1..Len(t.val) |-> RMul(t.val[b], scale.val[b])])

Linear(mods, id, t) == Tensor(LinearShape(mods[id].dims, t.shape), t.deps \cup {id}, <<>>)

\* faulty variant: every task is predicted by the head of task 0
Prediction_Head0(mods, id, t) ==
    [shape |-> BroadcastShape(t.shape, <<1>>), deps |-> t.deps \cup {<<"out", 0>>},
     head |-> mods[<<"out", 0>>].task]

\* PredictionLayer.forward: X + bias, a sigmoid when the task is binary; the
\* bias has shape (1,)
Prediction(mods, id, t) ==
    [shape |-> BroadcastShape(t.shape, <<1>>), deps |-> t.deps \cup {id},
     head |-> mods[id].task]

TowerUses(a, i) ==
    (IF Len(a.tower_dnn_hidden_units) > 0
     THEN {<<"tower_dnn", i>>}
          \cup (IF a.cls = "MMOE_MT" THEN {} ELSE {<<"target_attention", i>>, <<"lhuc", i>>})
     ELSE {})
    \cup {<<"tower_dnn_final_layer", i>>, <<"out", i>>}

TowerCalls(a, i) ==
    (IF Len(a.tower_dnn_hidden_units) > 0
     THEN <<Call(<<"tower_dnn", i>>, <<"mmoe_outs", i>>)>>
          \o (IF a.cls = "MMOE_MT" THEN <<>>
              ELSE <<Call(<<"target_attention", i>>, <<"tower_dnn", i>>),
                     Call(<<"lhuc", i>>, <<"target_attention", i>>)>>)
          \o <<Call(<<"tower_dnn_final_layer", i>>, <<"tower_dnn_out", i>>)>>
     ELSE <<Call(<<"tower_dnn_final_layer", i>>, <<"mmoe_outs", i>>)>>)
    \o <<Call(<<"out", i>>, <<"tower_dnn_final_layer", i>>)>>

\* the vector task i's tower output is multiplied by
TowerScale(a, mods, i, t, de, lhuc_out, p) ==
    IF a.cls = "MMOE_MT" THEN lhuc_out ELSE Att(mods, i, t, de, p)

\* faulty variant: MMOE_MT_ATT rescales by the attention vector even without
\* a tower
TowerStep_AttAlways(a, mods, i, mm, de, lhuc_out, p) ==
    IF Len(a.tower_dnn_hidden_units) > 0 \/ a.cls = "MMOE_MT_ATT"
    THEN LET t == IF Len(a.tower_dnn_hidden_units) > 0 THEN TowerDnn(mods, i, mm, p) ELSE mm
             scale == TowerScale(a, mods, i, t, de, lhuc_out, p)
             scaled == Mul(t, scale)
         IN [scale |-> scale, tower_dnn_out |-> scaled,
             output |-> Prediction(mods, <<"out", i>>,
                                   Linear(mods, <<"tower_dnn_final_layer", i>>, scaled))]
    ELSE [scale |-> NoTensor, tower_dnn_out |-> NoTensor,
          output |-> Prediction(mods, <<"out", i>>,
                                Linear(mods, <<"tower_dnn_final_layer", i>>, mm))]

\* one iteration of the tower loop: the scaling vector, the rescaled tower
\* output (NoTensor without a tower) and the task's prediction
TowerStep(a, mods, i, mm, de, lhuc_out, p) ==
    IF Len(a.tower_dnn_hidden_units) > 0
    THEN LET t == TowerDnn(mods, i, mm, p)
             scale == TowerScale(a, mods, i, t, de, lhuc_out, p)
             scaled == Mul(t, scale)
         IN [scale |-> scale, tower_dnn_out |-> scaled,
             output |-> Prediction(mods, <<"out", i>>,
                                   Linear(mods, <<"tower_dnn_final_layer", i>>, scaled))]
    ELSE [scale |-> NoTensor, tower_dnn_out |-> NoTensor,
          output |-> Prediction(mods, <<"out", i>>,
                                Linear(mods, <<"tower_dnn_final_layer", i>>, mm))]

\* forward, one iteration of the tower loop
ForwardTower ==
    /\ pc = "towers"
    /\ Len(task_outs) < num_tasks(args)
    /\ LET i == Len(task_outs) IN
       IF ~(TowerUses(args, i) \subseteq DOMAIN modules)
       THEN /\ Raise("AttributeError", "tower_dnn")
            /\ UNCHANGED <<att, tower_dnn_out, task_outs, trace>>
       ELSE LET r == TowerStep(args, modules, i, mmoe_outs[i + 1], domain_emb,
                               lhuc_output, params)
            IN IF IsErr(r.output)
               THEN /\ Raise("RuntimeError", "tower shape")
                    /\ UNCHANGED <<att, tower_dnn_out, task_outs, trace>>
               ELSE /\ att' = IF args.cls = "MMOE_MT" THEN att ELSE r.scale
                    /\ tower_dnn_out' = r.tower_dnn_out
                    /\ task_outs' = Append(task_outs, r.output)
                    /\ trace' = trace \o TowerCalls(args, i)
                    /\ UNCHANGED <<pc, err>>
    /\ UNCHANGED <<ctorvars, X, params, dnn_input, expert_outs_list, expert_outs,
                   gate_dnn_out, gate_softmax, mmoe_outs, domain_emb, lhuc_output,
                   result>>

\* torch.cat(task_outs, -1): column k of the result is task_outs[k]
CatTasks(outs) ==
    [shape |-> IF Len(outs[1].shape) = 0 THEN ErrShape
               ELSE CatShape([k \in 1..Len(outs) |-> outs[k].shape], Len(outs[1].shape)),
     deps |-> UNION {outs[k].deps : k \in 1..Len(outs)},
     cols |-> [k \in 1..Len(outs) |-> [deps |-> outs[k].deps, head |-> outs[k].head]]]

\* forward, task_outs = torch.cat(task_outs, -1) and the return
ForwardReturn ==
    /\ pc = "towers"
    /\ Len(task_outs) = num_tasks(args)
    /\ IF IsErr(CatTasks(task_outs))
       THEN /\ Raise("RuntimeError", "cat shape")
            /\ result' = result
       ELSE /\ result' = CatTasks(task_outs)
            /\ pc' = "returned"
            /\ err' = err
    /\ UNCHANGED <<ctorvars, X, params, dnn_input, expert_outs_list, expert_outs,
                   gate_dnn_out, gate_softmax, mmoe_outs, domain_emb, lhuc_output,
                   att, tower_dnn_out, task_outs, trace>>

\* __init__ as a function of its arguments: the sub-modules of a constructed
\* model
Build(a) ==
    Register(Register(EmbeddingDict(a), [id \in NetworkIds(a) |-> NetworkDesc(a, id)]),
             [id \in DomainIds(a) |-> DomainDesc(a, id)])

\* forward as a function of the model, the domain ids of the batch and the
\* parameters: the exception it ends in, or mmoe_outs and the returned tensor
Forward(a, mods, ids, p) ==
    LET n == num_tasks(a)
        x == DnnInput(a, Len(ids))
        outs == [e \in 1..a.num_experts |-> ExpertOut(mods, e - 1, x, p)]
        eo == Stack(outs)
        g == [k \in 1..n |-> GateDnnOut(a, mods, k - 1, x, p)]
        w == [k \in 1..n |-> GateSoftmax(g[k])]
        gate_mul_expert == [k \in 1..n |-> GateMulExpert(w[k], eo)]
        mm == [k \in 1..n |-> Squeeze(gate_mul_expert[k])]
        de == DomainEmb(mods, ids)
        lh == IF a.cls = "MMOE_MT" THEN LhucOutput(mods, de, p) ELSE NoTensor
        r == [k \in 1..n |-> TowerStep(a, mods, k - 1, mm[k], de, lh, p)]
        touts == [k \in 1..n |-> r[k].output]
        Raised(type, msg) == [err |-> [type |-> type, msg |-> msg, what |-> ""],
                              mmoe_outs |-> <<>>, result |-> NoResult]
    IN IF \E e \in 1..a.num_experts : IsErr(outs[e])
       THEN Raised("RuntimeError", "expert_dnn shape")
       ELSE IF \E k \in 1..n : IsErr(g[k]) \/ IsErr(w[k]) \/ IsErr(gate_mul_expert[k])
       THEN Raised("RuntimeError", "gate shape")
       ELSE IF IsErr(de)
       THEN Raised("IndexError", "index out of range in self")
       ELSE IF \E k \in 1..n : IsErr(r[k].output)
       THEN Raised("RuntimeError", "tower shape")
       ELSE IF IsErr(CatTasks(touts))
       THEN Raised("RuntimeError", "cat shape")
       ELSE [err |-> NoErr, mmoe_outs |-> mm, result |-> CatTasks(touts)]

Next ==
    \/ InitValidate
    \/ InitNetworks
    \/ InitDomain
    \/ ForwardInput
    \/ ForwardExpert
    \/ ForwardStack
    \/ ForwardGate
    \/ ForwardDomain
    \/ ForwardTower
    \/ ForwardReturn

Spec == Init /\ [][Next]_vars

\* ------------------------------------------------------------------ claims
\* forward was entered and has ended, by a return or by an exception
ForwardEnded == pc = "returned" \/ (pc = "raised" /\ X # <<>>)

(* C1: whenever forward returns, the returned tensor has shape
   (B, num_tasks): one row per input row and one column per task. *)
C1_OutputShape == pc = "returned" => result.shape = <<Len(X), num_tasks(args)>>

(* C2: once the argument checks have run, a construction with
   len(task_names) <= 0 or num_experts <= 0 has ended in a ValueError; it
   never gets to build a sub-module or to complete. *)
C2_NonPositiveRejected ==
    (pc # "new" /\ (args.n_task_names <= 0 \/ args.num_experts <= 0))
        => /\ pc = "raised"
           /\ err.type = "ValueError"
           /\ modules = EmbeddingDict(args)

C2_Witness ==
    /\ pc = "raised"
    /\ args.n_task_names >= 2
    /\ args.num_experts <= 0
    /\ err.type = "ValueError"

(* C3: once the argument checks have run, a construction whose task_types
   holds a string other than 'binary' and 'regression', at any position and
   with any other arguments, has ended in a ValueError. *)
C3_UnknownTaskTypeRejected ==
    (pc # "new" /\ \E k \in 1..Len(args.task_types) :
                        args.task_types[k] \notin {"binary", "regression"})
        => pc = "raised" /\ err.type = "ValueError"

C3_Witness ==
    /\ pc = "raised"
    /\ Len(args.task_types) = 3
    /\ args.task_types[1] = "binary"
    /\ args.task_types[2] = "regression"
    /\ args.task_types[3] = "multiclass"
    /\ err.msg = "task must be binary or regression, {} is illegal"
    /\ err.what = "multiclass"

(* C7: the argument checks pass exactly when len(task_names) >= 2,
   num_experts >= 2, dnn_feature_columns is not empty, task_types is as long
   as task_names and every task type is 'binary' or 'regression'; the
   ValueError raised is that of the first failing check in the order task
   count, expert count, feature columns, task_types length, task type; the
   verdict does not depend on the class. *)
C7_ValidationVerdict ==
    pc # "new" =>
        LET a == args
            rejected == pc = "raised" /\ err.type = "ValueError"
            ok == /\ a.n_task_names >= 2
                  /\ a.num_experts >= 2
                  /\ a.dnn_feature_columns # <<>>
                  /\ Len(a.task_types) = a.n_task_names
                  /\ \A k \in 1..Len(a.task_types) :
                        a.task_types[k] \in {"binary", "regression"}
            first == IF a.n_task_names < 2 THEN "num_tasks must be greater than 1"
                     ELSE IF a.num_experts < 2 THEN "num_experts must be greater than 1"
                     ELSE IF a.dnn_feature_columns = <<>> THEN "dnn_feature_columns is null!"
                     ELSE IF Len(a.task_types) # a.n_task_names
                     THEN "num_tasks must be equal to the length of task_types"
                     ELSE "task must be binary or regression, {} is illegal"
        IN /\ rejected <=> ~ok
           /\ rejected => err.msg = first

C7_Witness ==
    /\ pc = "raised"
    /\ args.n_task_names = 2
    /\ args.num_experts = 1
    /\ args.dnn_feature_columns = <<>>
    /\ Len(args.task_types) = 3
    /\ err.msg = "num_experts must be greater than 1"

(* C4: after every iteration of the gate loop, for the task just handled and
   every input row: the gate's softmax output has exactly num_experts
   weights, each non-negative, summing to 1; the mixture appended to
   mmoe_outs is the sum of the expert outputs weighted by them, and lies
   between the smallest and the largest expert output. *)
C4_GateDistribution ==
    Len(mmoe_outs) >= 1 =>
        LET i == Len(mmoe_outs) - 1
            w == gate_softmax.val
            x == expert_outs.val
            mix == mmoe_outs[i + 1].val
            E == 1..args.num_experts
        IN /\ <<"gate_dnn_final_layer", i>> \in gate_softmax.deps
           /\ \A b \in 1..Len(X) :
                /\ Len(w[b]) = args.num_experts
                /\ \A e \in E : w[b][e][1] >= 0 /\ w[b][e][2] > 0
                /\ REq(RSum(w[b]), <<1, 1>>)
                /\ REq(mix[b], RSum([e \in E |-> RMul(w[b][e], x[b][e])]))
                /\ \E lo \in E, hi \in E :
                      /\ \A e \in E : RLeq(x[b][lo], x[b][e]) /\ RLeq(x[b][e], x[b][hi])
                      /\ RLeq(x[b][lo], mix[b])
                      /\ RLeq(mix[b], x[b][hi])

C4_Witness ==
    /\ pc = "towers"
    /\ Len(X) = 2
    /\ args.num_experts = 3
    /\ \E b \in 1..2, e \in 1..3, f \in 1..3 :
          /\ ~REq(gate_softmax.val[b][e], gate_softmax.val[b][f])
          /\ RLess(expert_outs.val[b][e], mmoe_outs[Len(mmoe_outs)].val[b])
          /\ RLess(mmoe_outs[Len(mmoe_outs)].val[b], expert_outs.val[b][f])

(* C5 as stated: in every forward pass that returns, for every task and every
   tower configuration (tower_dnn_hidden_units empty included), the task's
   prediction is computed from the domain embedding table. *)
C5_AlwaysRescaled ==
    pc = "returned" =>
        \A k \in 1..Len(result.cols) : <<"domain_embeddings", 0>> \in result.cols[k].deps

(* C5 amended: a task's prediction is computed from the domain embedding
   table and an lhuc stack exactly when tower_dnn_hidden_units is not empty;
   then, after every iteration of the tower loop, the tower output of the task
   just handled is its tower activation times a scaling vector computed from
   the domain embedding, and every row's embedding is looked up with the
   row's own domain id. *)
C5_RescaledIffTower ==
    LET tower == Len(args.tower_dnn_hidden_units) > 0
        scale == IF args.cls = "MMOE_MT" THEN lhuc_output ELSE att
    IN /\ pc = "returned" =>
            \A k \in 1..Len(result.cols) :
                /\ <<"domain_embeddings", 0>> \in result.cols[k].deps <=> tower
                /\ (\E id \in result.cols[k].deps : id[1] = "lhuc") <=> tower
       /\ (Len(task_outs) >= 1 /\ tower) =>
            /\ <<"domain_embeddings", 0>> \in scale.deps
            /\ domain_emb.val = X
            /\ \A b \in 1..Len(X) :
                  REq(tower_dnn_out.val[b],
                      RMul(<<TowerVal(params, Len(task_outs) - 1, b), 1>>, scale.val[b]))
       /\ (Len(task_outs) >= 1 /\ ~tower) => tower_dnn_out = NoTensor

C5_Witness ==
    /\ pc = "returned"
    /\ Len(args.tower_dnn_hidden_units) > 0
    /\ args.cls = "MMOE_MT"
    /\ Len(X) = 2
    /\ X[1] # X[2]
    /\ ~REq(lhuc_output.val[1], lhuc_output.val[2])

(* C6: column i of the returned tensor is the prediction of task i: its head
   has type task_types[i]; it is computed by gate final layer i, tower final
   layer i and head i, by gate_dnn i and tower_dnn i when they exist, and by
   no gate, tower or head of another task. *)
C6_ColumnIsTask ==
    pc = "returned" =>
        /\ Len(result.cols) = args.n_task_names
        /\ \A i \in 0..(args.n_task_names - 1) :
              LET col == result.cols[i + 1]
                  own(name) == {id \in col.deps : id[1] = name} = {<<name, i>>}
                  none(name) == {id \in col.deps : id[1] = name} = {}
              IN /\ col.head = args.task_types[i + 1]
                 /\ own("gate_dnn_final_layer")
                 /\ own("tower_dnn_final_layer")
                 /\ own("out")
                 /\ IF Len(args.gate_dnn_hidden_units) > 0
                    THEN own("gate_dnn") ELSE none("gate_dnn")
                 /\ IF Len(args.tower_dnn_hidden_units) > 0
                    THEN own("tower_dnn") ELSE none("tower_dnn")
                 /\ \A e \in 0..(args.num_experts - 1) : <<"expert_dnn", e>> \in col.deps

C6_Witness ==
    /\ pc = "returned"
    /\ args.n_task_names = 3
    /\ args.task_types = <<"binary", "regression", "binary">>
    /\ Len(args.tower_dnn_hidden_units) > 0
    /\ Len(args.gate_dnn_hidden_units) > 0
    /\ result.cols[2].head = "regression"

(* C8: forward never reads a sub-module __init__ did not create. int_layers
   exists exactly when 'usetrans' occurs in flag, gate_dnn exactly when
   gate_dnn_hidden_units is not empty, tower_dnn exactly when
   tower_dnn_hidden_units is not empty, and forward calls each under the
   same condition. Under 'usetrans' the three self-attention layers are called
   once each, in sequence, each on the previous one's output, the first on the
   concatenated sparse embeddings; dnn_input is their flattened output with
   the dense values appended after it. Without 'usetrans' none is called. *)
C8_ModulesBuiltAndUsed ==
    LET built(name) == \E id \in DOMAIN modules : id[1] = name
        calls(name) == {k \in 1..Len(trace) : trace[k].m[1] = name}
        usetrans == args.flag \in {"usetrans", "sota_usetrans"}
        gate == args.gate_dnn_hidden_units # <<>>
        tower == args.tower_dnn_hidden_units # <<>>
        ndense == Cardinality({k \in 1..Len(args.dnn_feature_columns) :
                                  args.dnn_feature_columns[k].kind = "dense"})
        nsparse == Len(args.dnn_feature_columns) - ndense
        inForward == pc \in {"experts", "gates", "towers", "returned"}
    IN /\ err.type # "AttributeError"
       /\ \A k \in 1..Len(trace) : trace[k].m \in DOMAIN modules
       /\ (pc = "constructed" \/ inForward \/ ForwardEnded) =>
            /\ built("int_layers") <=> usetrans
            /\ built("gate_dnn") <=> gate
            /\ built("tower_dnn") <=> tower
            /\ usetrans => {id \in DOMAIN modules : id[1] = "int_layers"}
                                = {<<"int_layers", k>> : k \in 0..2}
       /\ inForward =>
            /\ Cardinality(calls("int_layers")) = IF usetrans THEN 3 ELSE 0
            /\ usetrans =>
                  /\ trace[1] = [m |-> <<"int_layers", 0>>, arg |-> <<"sparse_embedding_list", 0>>]
                  /\ trace[2] = [m |-> <<"int_layers", 1>>, arg |-> <<"int_layers", 0>>]
                  /\ trace[3] = [m |-> <<"int_layers", 2>>, arg |-> <<"int_layers", 1>>]
                  /\ dnn_input.parts[1] = [src |-> "att_output", width |-> nsparse * EmbSize]
                  /\ Len(dnn_input.parts) = IF ndense > 0 THEN 2 ELSE 1
                  /\ ndense > 0 => dnn_input.parts[2] = [src |-> "dense_input", width |-> ndense]
            /\ (\E id \in dnn_input.deps : id[1] = "int_layers") <=> usetrans
            /\ dnn_input.shape = <<Len(X), nsparse * EmbSize + ndense>>
       /\ pc \in {"towers", "returned"} =>
            Cardinality(calls("gate_dnn")) = IF gate THEN args.n_task_names ELSE 0
       /\ pc = "returned" =>
            Cardinality(calls("tower_dnn")) = IF tower THEN args.n_task_names ELSE 0

C8_Witness ==
    /\ pc = "returned"
    /\ args.flag = "usetrans"
    /\ Len(dnn_input.parts) = 2
    /\ args.gate_dnn_hidden_units = <<>>
    /\ args.tower_dnn_hidden_units # <<>>
    /\ Len(trace) > 3

(* C9: in one forward pass every expert is evaluated at most once, and
   exactly once before the first gate; the experts and the gates are called
   on the same dnn_input; no expert is called after a gate and no gate or
   expert after a tower; once a mixture exists, expert_outs is the stack of
   all num_experts expert outputs in expert index order and every mixture is
   computed from all of them; once a task output exists, all num_tasks
   mixtures exist. *)
C9_ExpertsShared ==
    LET E == 0..(args.num_experts - 1)
        isExpert(c) == c.m[1] = "expert_dnn"
        isGate(c) == c.m[1] \in {"gate_dnn", "gate_dnn_final_layer"}
        isTower(c) == c.m[1] \in {"tower_dnn", "tower_dnn_final_layer", "out",
                                  "target_attention"}
        n(e) == Cardinality({k \in 1..Len(trace) : trace[k].m = <<"expert_dnn", e>>})
        onInput(c) == \/ isExpert(c)
                      \/ c.m[1] = "gate_dnn"
                      \/ c.m[1] = "gate_dnn_final_layer" /\ args.gate_dnn_hidden_units = <<>>
    IN /\ \A k \in 1..Len(trace) : isExpert(trace[k]) => trace[k].m[2] \in E
       /\ \A e \in E : n(e) <= 1
       /\ pc \in {"gates", "towers", "returned"} => \A e \in E : n(e) = 1
       /\ \A k \in 1..Len(trace) : onInput(trace[k]) => trace[k].arg = <<"dnn_input", 0>>
       /\ \A k \in 1..Len(trace), l \in 1..Len(trace) :
             k < l => /\ ~(isGate(trace[k]) /\ isExpert(trace[l]))
                      /\ ~(isTower(trace[k]) /\ (isGate(trace[l]) \/ isExpert(trace[l])))
       /\ Len(mmoe_outs) >= 1 =>
             /\ Len(expert_outs_list) = args.num_experts
             /\ Len(expert_outs.shape) = 3
             /\ expert_outs.shape[1] = Len(X)
             /\ expert_outs.shape[2] = args.num_experts
             /\ \A b \in 1..Len(X), e \in E :
                   /\ expert_outs.val[b][e + 1] = expert_outs_list[e + 1].val[b]
                   /\ expert_outs.val[b][e + 1] = <<ExpertVal(params, e, b), 1>>
             /\ \A e \in E : <<"expert_dnn", e>> \in expert_outs_list[e + 1].deps
             /\ \A k \in 1..Len(mmoe_outs) :
                   {<<"expert_dnn", e>> : e \in E} \subseteq mmoe_outs[k].deps
       /\ Len(task_outs) >= 1 => Len(mmoe_outs) = args.n_task_names

C9_Witness ==
    /\ pc = "returned"
    /\ args.num_experts = 3
    /\ args.n_task_names = 3
    /\ Len(X) = 2
    /\ \E b \in 1..2 : expert_outs.val[b][1] # expert_outs.val[b][3]

(* C10: with tower_dnn_hidden_units not empty. MMOE_MT: lhuc_output is
   computed once, from the domain embedding and the lhuc stack alone, every
   entry is twice a sigmoid output and lies strictly between 0 and 2, and it
   multiplies the tower output of every task. MMOE_MT_ATT: task i's scaling
   vector att is computed by target_attention[i] on (tower output of task i,
   domain embedding) followed by lhuc[i], every entry is a sigmoid output
   strictly between 0 and 1, and no target_attention or lhuc module of
   another task takes part. *)
C10_ScalingVectors ==
    LET tower == args.tower_dnn_hidden_units # <<>>
        done == Len(task_outs)
        i == done - 1
        rows == 1..Len(X)
        calls(name) == {k \in 1..Len(trace) : trace[k].m[1] = name}
    IN (tower /\ pc \in {"towers", "returned"}) =>
         IF args.cls = "MMOE_MT"
         THEN /\ lhuc_output.deps = {<<"domain_embeddings", 0>>, <<"lhuc", 0>>}
              /\ Cardinality(calls("lhuc")) = 1
              /\ calls("target_attention") = {}
              /\ att = NoTensor
              /\ \A b \in rows :
                    /\ RLess(<<0, 1>>, lhuc_output.val[b])
                    /\ RLess(lhuc_output.val[b], <<2, 1>>)
                    /\ \E z \in Logits : REq(lhuc_output.val[b], RMul(<<2, 1>>, Sigmoid(z)))
              /\ done >= 1 =>
                    \A b \in rows :
                        REq(tower_dnn_out.val[b],
                            RMul(<<TowerVal(params, i, b), 1>>, lhuc_output.val[b]))
         ELSE /\ lhuc_output = NoTensor
              /\ Cardinality(calls("lhuc")) = done
              /\ Cardinality(calls("target_attention")) = done
              /\ done >= 1 =>
                    /\ {id \in att.deps : id[1] \in {"target_attention", "lhuc"}}
                          = {<<"target_attention", i>>, <<"lhuc", i>>}
                    /\ {<<"tower_dnn", i>>, <<"domain_embeddings", 0>>} \subseteq att.deps
                    /\ \A id \in att.deps :
                          id[1] \in {"tower_dnn", "gate_dnn", "gate_dnn_final_layer"}
                              => id[2] = i
                    /\ \E k \in 1..(Len(trace) - 1) :
                          /\ trace[k] = [m |-> <<"target_attention", i>>,
                                          arg |-> <<"tower_dnn", i>>]
                          /\ trace[k + 1] = [m |-> <<"lhuc", i>>,
                                              arg |-> <<"target_attention", i>>]
                    /\ \A b \in rows :
                          /\ RLess(<<0, 1>>, att.val[b])
                          /\ RLess(att.val[b], <<1, 1>>)
                          /\ \E z \in Logits : REq(att.val[b], Sigmoid(z))
                          /\ REq(tower_dnn_out.val[b],
                                 RMul(<<TowerVal(params, i, b), 1>>, att.val[b]))

C10_Witness ==
    /\ pc = "returned"
    /\ args.cls = "MMOE_MT_ATT"
    /\ args.tower_dnn_hidden_units # <<>>
    /\ args.n_task_names = 3
    /\ Len(X) = 2
    /\ ~REq(att.val[1], att.val[2])

(* C11: the domain embedding table has num_domains + 1 rows. A forward pass
   gets past the lookup exactly when every row's domain id is in
   0..num_domains, and then row b of domain_emb is the table row of the id of
   row b. An id outside 0..num_domains reaches the lookup as it is: nothing
   rejects it before the experts and gates have run, and the lookup raises
   IndexError. *)
C11_DomainLookup ==
    LET nd == args.num_domains
        valid == \A b \in 1..Len(X) : X[b] \in 0..nd
        table == <<"domain_embeddings", 0>>
    IN /\ table \in DOMAIN modules => modules[table].dims = <<nd + 1, EmbSize>>
       /\ pc \in {"constructed", "experts", "gates", "towers", "returned"}
            => table \in DOMAIN modules
       /\ pc \in {"towers", "returned"} =>
            /\ valid
            /\ domain_emb.val = X
            /\ domain_emb.shape = <<Len(X), EmbSize>>
       /\ (ForwardEnded /\ ~valid) =>
            /\ pc = "raised"
            /\ err.type = "IndexError"
            /\ Len(mmoe_outs) = args.n_task_names
            /\ domain_emb = NoTensor
       /\ (ForwardEnded /\ err.type = "IndexError") => ~valid

C11_Witness ==
    /\ pc = "returned"
    /\ args.num_domains = 2
    /\ X = <<1, 2>>
    /\ domain_emb.val = <<1, 2>>


(* C12: with flag None and every checked argument valid, __init__ ends in a
   TypeError once the argument checks have passed, with no expert, gate or
   tower network built, and forward is never entered. A TypeError is raised
   only in that case, and a construction that gets to build its networks has
   a flag that is a string. *)
C12_NoneFlagRaises ==
    LET a == args
        ok == /\ a.n_task_names >= 2
              /\ a.num_experts >= 2
              /\ a.dnn_feature_columns # <<>>
              /\ Len(a.task_types) = a.n_task_names
              /\ \A k \in 1..Len(a.task_types) :
                    a.task_types[k] \in {"binary", "regression"}
    IN /\ (a.flag = "None" /\ ok /\ pc \notin {"new", "validated"}) =>
            /\ pc = "raised"
            /\ err.type = "TypeError"
            /\ \A id \in DOMAIN modules : id[1] = "embedding_dict"
            /\ X = <<>>
       /\ err.type = "TypeError" => a.flag = "None" /\ ok
       /\ (\E id \in DOMAIN modules : id[1] # "embedding_dict") => a.flag # "None"
       /\ pc \in {"networks", "constructed", "experts", "gates", "towers", "returned"}
            => a.flag \in {"sota", "usetrans", "sota_usetrans"}

C12_Witness ==
    /\ pc = "raised"
    /\ args.flag = "None"
    /\ args.cls = "MMOE_MT_ATT"
    /\ err.type = "TypeError"
    /\ err.msg = "argument of type 'NoneType' is not iterable"


(* C13: a construction that differs only in domain_id_as_feature passes or
   fails the argument checks alike, builds the same sub-modules, feeds the
   experts and gates the same dnn_input, which covers every feature column
   with the domain column among them, and forward ends in the same exception
   or returns the same mmoe_outs and the same result on the same batch; only
   the locals field_num and dnn_feature_columns of __init__ differ. *)
C13_DomainIdAsFeatureIgnored ==
    LET other == [args EXCEPT !.domain_id_as_feature = ~@]
        cols == args.dnn_feature_columns
    IN /\ Validate(other) = Validate(args)
       /\ pc \in {"constructed", "experts", "gates", "towers", "returned"} =>
            /\ modules = Build(other)
            /\ locals = DomainLocals(args, modules)
            /\ DomainLocals(other, modules) # locals
       /\ pc \in {"experts", "gates", "towers", "returned"} =>
            /\ dnn_input = DnnInput(other, Len(X))
            /\ dnn_input.shape = <<Len(X), compute_input_dim(cols)>>
            /\ EmbeddingIds(cols) \subseteq dnn_input.deps
            /\ \E k \in 1..Len(cols) : cols[k].name = args.domain_column
       /\ ForwardEnded =>
            LET f == Forward(other, Build(other), X, params) IN
            /\ f.err = err
            /\ pc = "returned" => f.mmoe_outs = mmoe_outs /\ f.result = result

C13_Witness ==
    /\ pc = "returned"
    /\ ~args.domain_id_as_feature
    /\ locals.dnn_feature_columns = <<SparseA>>
    /\ locals.field_num = 1
    /\ dnn_input.shape = <<Len(X), 2 * EmbSize>>
    /\ <<"embedding_dict", 1>> \in result.deps


(* C14: with tower_dnn_hidden_units empty, the other class built from the
   same arguments has the same embedding, expert, gate, final-layer and
   prediction sub-modules, and on the same batch and parameters its forward
   ends in the same exception or returns the same mmoe_outs and the same
   result; no rescaling takes place, target attention is never called, and
   the result depends on no domain embedding, LHUC or target-attention
   parameter. *)
C14_SameWithoutTower ==
    LET other == [args EXCEPT !.cls = IF @ = "MMOE_MT" THEN "MMOE_MT_ATT" ELSE "MMOE_MT"]
        domain == {"domain_embeddings", "lhuc", "target_attention"}
        shared == {id \in DOMAIN modules : id[1] \notin domain}
    IN (Len(args.tower_dnn_hidden_units) = 0 /\ ForwardEnded) =>
          LET f == Forward(other, Build(other), X, params) IN
          /\ shared = {id \in DOMAIN Build(other) : id[1] \notin domain}
          /\ \A id \in shared : Build(other)[id] = modules[id]
          /\ f.err = err
          /\ pc = "returned" =>
               /\ f.mmoe_outs = mmoe_outs
               /\ f.result = result
               /\ \A id \in result.deps : id[1] \notin domain
               /\ tower_dnn_out = NoTensor
               /\ att = NoTensor
               /\ \A k \in 1..Len(trace) :
                     /\ trace[k].m[1] # "target_attention"
                     /\ trace[k].m[1] = "lhuc" => args.cls = "MMOE_MT"

C14_Witness ==
    /\ pc = "returned"
    /\ args.cls = "MMOE_MT_ATT"
    /\ Len(args.tower_dnn_hidden_units) = 0
    /\ Len(X) = 2
    /\ domain_emb.val = X
    /\ result.shape = <<2, num_tasks(args)>>
    /\ \E id \in DOMAIN modules : id[1] = "target_attention"

====
